---- MODULE Spec2Model ----
(***************************************************************************)
(* A model of niimasker (src/niimasker/niimasker.py): the scan trimmer,    *)
(* the confound builder, the masker selector, the extraction step, the     *)
(* per-image driver and the batch orchestrator make_timeseries, run        *)
(* sequentially or on a multiprocessing.Pool.                              *)
(*                                                                         *)
(* Conventions.  A Python str is a sequence of one-character strings, so   *)
(* that substring tests and iteration over a str are computed.  An         *)
(* optional value is a sequence of length 0 (None) or 1 (the value).  A    *)
(* call's outcome is a record [err, val]: err = "" for a return, else the  *)
(* name of the exception raised.                                           *)
(***************************************************************************)
EXTENDS Integers, Sequences, FiniteSets

VARIABLES
    op,       \* the function under call
    args,     \* its arguments
    ret,      \* its outcome, NotRun until it has ended
    pc,       \* make_timeseries: where the orchestrator is
    cur,      \* make_timeseries: the loop index i of the sequential for
    files,    \* the output directory: file name -> contents
    written,  \* the positions of the images whose table has been written
    calls,    \* the _mask_and_save calls begun: [pos, img, reg]
    queue,    \* Pool.starmap: the chunks not yet taken by a worker
    running,  \* Pool.starmap: the chunks being run, each at some position
    failed    \* Pool.starmap: the first exception recorded (a sequence of 0 or 1)

vars == <<op, args, ret, pc, cur, files, written, calls, queue, running, failed>>

----------------------------------------------------------------------------
(* Python values *)

None == <<>>
Some(v) == <<v>>
IsNone(x) == x = <<>>
Val(x) == x[1]

Return(v) == [err |-> "", val |-> v]
Raise(e) == [err |-> e, val |-> <<>>]
NotRun == [err |-> "not run", val |-> <<>>]
Raised(r) == r.err # "" /\ r.err # "not run"
Returned(r) == r.err = ""

Max(a, b) == IF a >= b THEN a ELSE b
Min(a, b) == IF a <= b THEN a ELSE b

Range(s) == {s[i] : i \in 1..Len(s)}

\* seq[n:] for a Python sequence of any length: a start past the end gives the
\* empty sequence, a negative start counts from the end, None is the start.
SliceFrom(s, n) ==
    LET start == IF IsNone(n) THEN 0
                 ELSE IF Val(n) >= 0 THEN Min(Val(n), Len(s))
                 ELSE Max(Len(s) + Val(n), 0)
    IN SubSeq(s, start + 1, Len(s))

\* sub in s, for two str
Contains(s, sub) ==
    \E i \in 0..(Len(s) - Len(sub)) : SubSeq(s, i + 1, i + Len(sub)) = sub

\* str(i) of a natural number
RECURSIVE Digits(_)
Digits(n) ==
    LET d == <<"0", "1", "2", "3", "4", "5", "6", "7", "8", "9">>
    IN IF n < 10 THEN <<d[n + 1]>> ELSE Digits(n \div 10) \o <<d[(n % 10) + 1]>>

\* the sorted sequence of the members of a finite set of integers
RECURSIVE Sorted(_)
Sorted(S) ==
    IF S = {} THEN <<>>
    ELSE LET m == CHOOSE x \in S : \A y \in S : x <= y
         IN <<m>> \o Sorted(S \ {m})

\* the sequences over S of length lo..hi
SeqsOf(S, lo, hi) == UNION {[1..k -> S] : k \in lo..hi}

----------------------------------------------------------------------------
(* 4.1 Scan trimmer *)

\* An image is [frames, affine]: the sequence of its frames (the 4th axis of
\* its array) and its spatial transform.  A regressor matrix is [rows, cols]:
\* the sequence of its rows and the sequence of its columns' data.
DiscardImageOnly(img, n_scans, regressors) ==
    Return([img |-> [frames |-> SliceFrom(img.frames, n_scans), affine |-> img.affine],
            reg |-> regressors])

_discard_initial_scans(img, n_scans, regressors) ==
    LET arr == SliceFrom(img.frames, n_scans)
        out_img == [frames |-> arr, affine |-> img.affine]
        out_reg == IF ~IsNone(regressors)
                   THEN Some([Val(regressors) EXCEPT
                                 !.rows = SliceFrom(Val(regressors).rows, n_scans)])
                   ELSE None
    IN Return([img |-> out_img, reg |-> out_reg])

\* _mask_and_save, the trimming stage: the trimmer runs for a count > 0 only
TrimStage(img, confounds, discard_scans) ==
    IF ~IsNone(discard_scans) /\ Val(discard_scans) > 0
    THEN _discard_initial_scans(img, discard_scans, confounds)
    ELSE Return([img |-> img, reg |-> confounds])

----------------------------------------------------------------------------
(* 4.2 Confound builder *)

rot == <<"r", "o", "t">>
trans == <<"t", "r", "a", "n", "s">>
suffix_d == <<"_", "d">>

\* A data frame is [cols, rows]: its columns, each [name, data], and its rows.
\* A column's data is [file, src, dx]: the file and the column it was read
\* from and, for a derivative, the sample spacing of np.gradient.

\* df[names]: for each name in turn, every column carrying that label
RECURSIVE SelectCols(_, _)
SelectCols(cols, names) ==
    IF names = <<>> THEN <<>>
    ELSE SelectSeq(cols, LAMBDA c : c.name = Head(names)) \o SelectCols(cols, Tail(names))

GetItem(df, names) ==
    IF \E i \in 1..Len(names) : \A j \in 1..Len(df.cols) : df.cols[j].name # names[i]
    THEN Raise("KeyError")
    ELSE Return([cols |-> SelectCols(df.cols, names), rows |-> df.rows])

\* pd.read_csv of a confound file [path, header, rows]
ReadCsv(fname) ==
    [cols |-> [i \in 1..Len(fname.header) |->
                 [name |-> fname.header[i],
                  data |-> [file |-> fname.path, src |-> fname.header[i], dx |-> None]]],
     rows |-> fname.rows]

IsRealign(name) == Contains(name, rot) \/ Contains(name, trans)

RealignColsRotOnly(columns) ==
    SelectSeq(columns, LAMBDA i : Contains(i, rot))

\* line 35: the names, among the frame's, that hold 'rot' or 'trans'
RealignCols(columns) ==
    SelectSeq(columns, IsRealign)

DerivsFirst(regressors, derivs) ==
    derivs \o regressors

\* lines 40-41: pd.concat([regressors, derivs], axis=1)
ConcatColumns(regressors, derivs) ==
    regressors \o derivs

_compute_realign_derivs(regressors, t_r) ==
    LET names == [i \in 1..Len(regressors.cols) |-> regressors.cols[i].name]
        cols == RealignCols(names)
        realign == SelectCols(regressors.cols, cols)
        deriv_cols == [i \in 1..Len(cols) |-> cols[i] \o suffix_d]
    IN IF Len(regressors.rows) < 2
       THEN Raise("ValueError: array too small for gradient")
       ELSE IF Len(realign) # Len(deriv_cols)
       THEN Raise("ValueError: shape of passed values")
       ELSE Return([cols |-> ConcatColumns(regressors.cols,
                                [i \in 1..Len(realign) |->
                                   [name |-> deriv_cols[i],
                                    data |-> [realign[i].data EXCEPT
                                                 !.dx = Some(t_r)]]]),
                    rows |-> regressors.rows])

\* regressors.values: the matrix without its labels
Values(df) ==
    [cols |-> [i \in 1..Len(df.cols) |-> df.cols[i].data], rows |-> df.rows]

\* The frame _build_regressors holds at line 54, before .values
RegressorFrame(fname, regressor_names, realign_derivatives, t_r) ==
    LET all_regressors == ReadCsv(fname)
        regressors == GetItem(all_regressors, regressor_names)
    IN IF Raised(regressors) THEN regressors
       ELSE IF realign_derivatives
       THEN IF ~IsNone(t_r)
            THEN _compute_realign_derivs(regressors.val, Val(t_r))
            ELSE Raise("ValueError: t_r not provided")
       ELSE regressors

_build_regressors(fname, regressor_names, realign_derivatives, t_r) ==
    LET regressors == RegressorFrame(fname, regressor_names, realign_derivatives, t_r)
    IN IF Raised(regressors) THEN regressors ELSE Return(Values(regressors.val))

----------------------------------------------------------------------------
(* 4.3 Masker selector *)

\* np.unique: the sorted distinct values of the mask's voxels
Unique(data) == Sorted(Range(data))

_set_masker(mask) ==
    LET n_rois == Unique(mask)
    IN IF Len(n_rois) > 2
       THEN Return([kind |-> "NiftiLabelsMasker", mask |-> mask])
       ELSE IF Len(n_rois) = 2
       THEN Return([kind |-> "NiftiMasker", mask |-> mask])
       ELSE Raise("ValueError: No ROI detected")

----------------------------------------------------------------------------
(* 4.4 Extraction step *)

roi == <<"r", "o", "i">>
voxel == <<"v", "o", "x", "e", "l">>

\* The features of masker.fit_transform's matrix: the voxels inside a binary
\* mask, or the non-zero labels of an atlas in ascending order.
Features(masker) ==
    IF masker.kind = "NiftiMasker"
    THEN SelectSeq([i \in 1..Len(masker.mask) |-> i], LAMBDA i : masker.mask[i] # 0)
    ELSE SelectSeq(Unique(masker.mask), LAMBDA v : v # 0)

\* line 77: masker.fit_transform(img, confounds): frames x features; the
\* engine refuses confounds whose rows are not the image's frames.
FitTransform(masker, img, confounds) ==
    IF ~IsNone(confounds) /\ Len(Val(confounds).rows) # Len(img.frames)
    THEN Raise("ValueError: confounds do not match the image")
    ELSE Return([frames |-> img.frames, features |-> Features(masker),
                 affine |-> img.affine,
                 confounds |-> IF IsNone(confounds) THEN None
                               ELSE Some(Val(confounds).cols),
                 mean |-> FALSE])

\* A labels argument is [type, v]: a list and its items v, or a str, v holding
\* that one str.  Iterating a str yields its characters, a list its items.
Iterate(obj) ==
    IF obj.type = "str" THEN [i \in 1..Len(obj.v[1]) |-> <<obj.v[1][i]>>] ELSE obj.v

\* pd.DataFrame(timeseries, columns=...): a 1-D array is one column
DataFrame(timeseries, columns) ==
    LET width == IF timeseries.mean THEN 1 ELSE Len(timeseries.features)
    IN IF Len(columns) # width THEN Raise("ValueError: shape of passed values")
       ELSE Return([columns |-> columns, data |-> timeseries])

\* line 85: labels = ['roi'] if roi_labels is None else roi_labels
MeanLabels(roi_labels) ==
    IF IsNone(roi_labels) THEN [type |-> "list", v |-> <<roi>>] ELSE Val(roi_labels)

_mask(masker, img, confounds, roi_labels, as_voxels) ==
    LET timeseries == FitTransform(masker, img, confounds)
    IN IF Raised(timeseries) THEN timeseries
       ELSE IF masker.kind = "NiftiMasker"
       THEN IF as_voxels
            THEN DataFrame(timeseries.val,
                           [i \in 1..Len(timeseries.val.features) |->
                              voxel \o Digits(i - 1)])
            ELSE DataFrame([timeseries.val EXCEPT !.mean = TRUE],
                           Iterate(MeanLabels(roi_labels)))
       ELSE DataFrame(timeseries.val,
                      IF IsNone(roi_labels)
                      THEN [i \in 1..Len(timeseries.val.features) |->
                              Digits(timeseries.val.features[i])]
                      ELSE Iterate(Val(roi_labels)))

----------------------------------------------------------------------------
(* 4.5 Per-image driver *)

ImgFrames == 3      \* frames of every image on disk

gone == <<"g", "o", "n", "e">>
timeseries_tsv ==
    <<"_", "t", "i", "m", "e", "s", "e", "r", "i", "e", "s", ".", "t", "s", "v">>

Positions(s, c) == {i \in 1..Len(s) : s[i] = c}
Least(S) == CHOOSE x \in S : \A y \in S : x <= y
Greatest(S) == CHOOSE x \in S : \A y \in S : x >= y

\* os.path.basename: what follows the last '/'
Basename(path) ==
    IF Positions(path, "/") = {} THEN path
    ELSE SubSeq(path, Greatest(Positions(path, "/")) + 1, Len(path))

\* os.path.dirname: what precedes the last '/'
Dirname(path) ==
    IF Positions(path, "/") = {} THEN <<>>
    ELSE SubSeq(path, 1, Greatest(Positions(path, "/")) - 1)

\* s.split(sep)[0]: what precedes the first sep
SplitFirst(s, sep) ==
    IF Positions(s, sep) = {} THEN s
    ELSE SubSeq(s, 1, Least(Positions(s, sep)) - 1)

\* line 114: the output file's name
OutName(img_name) ==
    SplitFirst(Basename(img_name), ".") \o timeseries_tsv

\* line 99: nib.load; the files of directory gone do not exist
NibLoad(img_name) ==
    IF Dirname(img_name) = gone THEN Raise("FileNotFoundError")
    ELSE Return([frames |-> [t \in 1..ImgFrames |-> [img |-> img_name, t |-> t]],
                 affine |-> "affine"])

\* _mask_and_save up to the table it writes: [out_fname, data], or the
\* exception raised on the way
_mask_and_save(masker, img_name, regressor_file, regressor_names, realign_derivs, t_r, as_voxels, labels, discard_scans) ==
    LET img == NibLoad(img_name)
        built == IF ~IsNone(regressor_file)
                 THEN _build_regressors(Val(regressor_file), regressor_names,
                                        realign_derivs, t_r)
                 ELSE Return(None)
        confounds == IF IsNone(regressor_file) THEN None ELSE Some(built.val)
        trimmed == TrimStage(img.val, confounds, discard_scans)
        data == _mask(masker, trimmed.val.img, trimmed.val.reg, labels, as_voxels)
    IN IF Raised(img) THEN img
       ELSE IF Raised(built) THEN built
       ELSE IF Raised(trimmed) THEN trimmed
       ELSE IF Raised(data) THEN data
       ELSE Return([out_fname |-> OutName(img_name), data |-> data.val])

\* A file of the output directory: just opened for writing, holding a table as
\* to_csv writes it, or holding the bytes of two writers
Truncated == [state |-> "empty", table |-> <<>>]
ToCsv(data) == [state |-> "written", table |-> <<data>>]
Torn == [state |-> "torn", table |-> <<>>]

Put(dir, name, content) ==
    [f \in DOMAIN dir \cup {name} |-> IF f = name THEN content ELSE dir[f]]

----------------------------------------------------------------------------
(* Bounds and input sets *)

MaxVoxels == 3      \* voxels of a mask image
MaxLabel == 3       \* largest voxel value of a mask image
MaxFrames == 3      \* frames of a functional image
MaxDiscard == 4     \* largest discard count
MaxRows == 4        \* rows of a confound matrix or file
MaxNames == 3       \* selected confound column names
MaxLabels == 2      \* caller-supplied labels in a list

Image(F) == [frames |-> [i \in 1..F |-> i], affine |-> "affine"]

rot_x == <<"r", "o", "t", "_", "x">>
trans_y == <<"t", "r", "a", "n", "s", "_", "y">>
other == <<"o", "t", "h", "e", "r">>
csf == <<"c", "s", "f">>
gsr == <<"g", "s", "r">>

\* A confound file of R rows; gsr is a name its header lacks
ConfoundFile(j, R) ==
    [path |-> j, header |-> <<rot_x, trans_y, other, csf>>, rows |-> [i \in 1..R |-> i]]
Names == {rot_x, trans_y, other, csf, gsr}
TR == 2

\* A confound matrix of R rows, as _build_regressors returns it
Matrix(R) ==
    [cols |-> <<[file |-> 1, src |-> csf, dx |-> None]>>, rows |-> [i \in 1..R |-> i]]

Masks == SeqsOf(0..MaxLabel, 1, MaxVoxels)
Maskers == {_set_masker(m).val : m \in {x \in Masks : Returned(_set_masker(x))}}

pcc == <<"p", "c", "c">>
LabelStrs == {<<"a">>, pcc}
RoiLabels ==
    {None}
    \cup {Some([type |-> "str", v |-> <<s>>]) : s \in LabelStrs \cup {<<>>}}
    \cup {Some([type |-> "list", v |-> l]) : l \in SeqsOf(LabelStrs, 0, MaxLabels)}

Idle ==
    /\ pc = "idle"
    /\ cur = 0
    /\ files = <<>>
    /\ written = {}
    /\ calls = {}
    /\ queue = <<>>
    /\ running = {}
    /\ failed = None

batch == <<pc, cur, files, written, calls, queue, running, failed>>

----------------------------------------------------------------------------
(* Calls of the single functions *)

InitSetMasker ==
    /\ op = "_set_masker"
    /\ args \in [mask : Masks]
    /\ ret = NotRun
    /\ Idle

SetMasker ==
    /\ op = "_set_masker"
    /\ ret = NotRun
    /\ ret' = _set_masker(args.mask)
    /\ UNCHANGED <<op, args, batch>>

InitTrim ==
    /\ op \in {"_discard_initial_scans", "_mask_and_save: trim"}
    /\ args \in [img : {Image(F) : F \in 0..MaxFrames},
                 n_scans : {None} \cup {Some(n) : n \in -1..MaxDiscard},
                 regressors : {None} \cup {Some(Matrix(R)) : R \in 0..MaxRows}]
    /\ ret = NotRun
    /\ Idle

DiscardInitialScans ==
    /\ op = "_discard_initial_scans"
    /\ ret = NotRun
    /\ ret' = _discard_initial_scans(args.img, args.n_scans, args.regressors)
    /\ UNCHANGED <<op, args, batch>>

Trim ==
    /\ op = "_mask_and_save: trim"
    /\ ret = NotRun
    /\ ret' = TrimStage(args.img, args.regressors, args.n_scans)
    /\ UNCHANGED <<op, args, batch>>

InitRegressors ==
    /\ op = "_build_regressors"
    /\ args \in [fname : {ConfoundFile(1, R) : R \in 1..MaxRows},
                 regressor_names : SeqsOf(Names, 0, MaxNames),
                 realign_derivatives : BOOLEAN,
                 t_r : {None, Some(TR)}]
    /\ ret = NotRun
    /\ Idle

BuildRegressors ==
    /\ op = "_build_regressors"
    /\ ret = NotRun
    /\ ret' = _build_regressors(args.fname, args.regressor_names,
                                args.realign_derivatives, args.t_r)
    /\ UNCHANGED <<op, args, batch>>

InitMask ==
    /\ op = "_mask"
    /\ args \in [masker : Maskers,
                 img : {Image(F) : F \in 1..MaxFrames},
                 confounds : {None} \cup {Some(Matrix(R)) : R \in (MaxFrames - 1)..MaxFrames},
                 roi_labels : RoiLabels,
                 as_voxels : BOOLEAN]
    /\ ret = NotRun
    /\ Idle

Mask ==
    /\ op = "_mask"
    /\ ret = NotRun
    /\ ret' = _mask(args.masker, args.img, args.confounds, args.roi_labels,
                    args.as_voxels)
    /\ UNCHANGED <<op, args, batch>>

SpecSetMasker == InitSetMasker /\ [][SetMasker]_vars
SpecTrim == InitTrim /\ [][DiscardInitialScans \/ Trim]_vars
SpecRegressors == InitRegressors /\ [][BuildRegressors]_vars
SpecMask == InitMask /\ [][Mask]_vars

----------------------------------------------------------------------------
(* 4.6 Batch orchestrator: make_timeseries *)

MaxImages == 3      \* input images of a batch drawn from Paths
MaxBatch == 9       \* input images of a batch of plainly named images
MaxGone == 2        \* missing files among them

slash == <<"/">>
nii == <<".", "n", "i", "i">>
gz == <<".", "g", "z">>
v2 == <<".", "v", "2">>
Stem(i) == <<"s">> \o Digits(i)
dir_a == <<"a">>
dir_b == <<"b">>

\* The image paths of a small batch: two of one basename in two directories,
\* one whose name has a dot before its extension, a .nii.gz, a missing file
Paths ==
    {dir_a \o slash \o Stem(1) \o nii,
     dir_b \o slash \o Stem(1) \o nii,
     dir_a \o slash \o Stem(1) \o v2 \o nii,
     dir_a \o slash \o Stem(2) \o nii \o gz,
     gone \o slash \o Stem(3) \o nii}

PlainPath(i, missing) ==
    (IF missing THEN gone ELSE dir_a) \o slash \o Stem(i) \o nii

JobCounts == {1, 2}

\* **masker_kwargs: no t_r at all, a t_r, t_r=None
KwargsChoices ==
    {[standardize |-> Some(1)],
     [standardize |-> Some(1), t_r |-> Some(TR)],
     [standardize |-> Some(1), t_r |-> None]}

\* masker_kwargs[key]
KwGet(kwargs, key) ==
    IF key \in DOMAIN kwargs THEN Return(kwargs[key]) ELSE Raise("KeyError")

\* lines 169-170: the regressor files as iterated, None for each image when
\* the caller gave none
RegressorList(a) ==
    IF IsNone(a.regressor_files)
    THEN [i \in 1..Len(a.input_files) |-> None]
    ELSE [i \in 1..Len(Val(a.regressor_files)) |-> Some(Val(a.regressor_files)[i])]

\* lines 164-165: the masker, built once
Masker(a) == _set_masker(a.mask)

\* The per-image driver on the image and regressor file at positions i and j
Driver(a, i, j, t_r) ==
    _mask_and_save(Masker(a).val, a.input_files[i], RegressorList(a)[j],
                   a.regressor_names, a.realign_derivs, t_r, a.as_voxels,
                   a.labels, a.discard_scans)

CallOf(a, i, j) == [pos |-> i, img |-> a.input_files[i], reg |-> RegressorList(a)[j]]

PairFirstRegressor(i) == 1

\* lines 175 and 184: image i goes with the regressor file at i
PairedRegressor(i) == i

\* lines 180-191: zip stops at its shortest argument
Tasks(a) == Min(Len(a.input_files), Len(RegressorList(a)))

ChunkOfOne(n, processes) == IF n = 0 THEN 0 ELSE 1

\* Pool._map_async, called by line 193 with no chunksize: starmap cuts the
\* tasks into chunks of ceil(n / (4 * processes))
ChunkSize(n, processes) ==
    IF n = 0 THEN 0
    ELSE (n \div (processes * 4)) + (IF n % (processes * 4) # 0 THEN 1 ELSE 0)

Chunks(n, processes) ==
    LET size == ChunkSize(n, processes)
        count == IF size = 0 THEN 0 ELSE (n + size - 1) \div size
    IN [c \in 1..count |-> [k \in 1..(Min(c * size, n) - (c - 1) * size) |->
                               (c - 1) * size + k]]

BatchArgs(input_files, regressor_files, realign_derivs, n_jobs, masker_kwargs) ==
    [input_files |-> input_files,
     mask |-> <<0, 1, 1>>,
     labels |-> None,
     regressor_files |-> regressor_files,
     regressor_names |-> <<rot_x, csf>>,
     realign_derivs |-> realign_derivs,
     as_voxels |-> FALSE,
     discard_scans |-> Some(1),
     n_jobs |-> n_jobs,
     masker_kwargs |-> masker_kwargs]

InitRun ==
    /\ op = "make_timeseries"
    /\ ret = NotRun
    /\ pc = "start"
    /\ cur = 0
    /\ files = <<>>
    /\ written = {}
    /\ calls = {}
    /\ queue = <<>>
    /\ running = {}
    /\ failed = None

\* A batch of up to MaxImages images of Paths, with no regressor files, one
\* for each image, or one too few
InitBatch ==
    /\ \E input_files \in SeqsOf(Paths, 0, MaxImages),
          realign_derivs \in BOOLEAN,
          n_jobs \in JobCounts,
          masker_kwargs \in KwargsChoices :
          \E regressor_files \in
                {None}
                \cup {Some([j \in 1..m |-> ConfoundFile(j, ImgFrames)]) :
                        m \in {Len(input_files), Len(input_files) - 1} \cap Nat} :
             args = BatchArgs(input_files, regressor_files, realign_derivs, n_jobs,
                              masker_kwargs)
    /\ InitRun

\* A batch of up to MaxBatch plainly named images, some of them missing
InitPool ==
    /\ \E n \in 0..MaxBatch, n_jobs \in JobCounts :
          \E missing \in {S \in SUBSET (1..n) : Cardinality(S) <= MaxGone} :
             args = BatchArgs([i \in 1..n |-> PlainPath(i, i \in missing)], None, FALSE,
                              n_jobs, [standardize |-> Some(1), t_r |-> Some(TR)])
    /\ InitRun

\* lines 164-173 and, for n_jobs # 1, 180-192: the masker, then the loop or
\* the pool's task chunks
Start ==
    /\ op = "make_timeseries"
    /\ pc = "start"
    /\ LET masker == Masker(args)
           t_r == KwGet(args.masker_kwargs, "t_r")
       IN IF Raised(masker)
          THEN /\ ret' = masker
               /\ pc' = "raised"
               /\ UNCHANGED <<cur, queue>>
          ELSE IF args.n_jobs = 1
          THEN /\ pc' = "loop"
               /\ cur' = 1
               /\ UNCHANGED <<ret, queue>>
          ELSE IF Raised(t_r)
          THEN /\ ret' = t_r
               /\ pc' = "raised"
               /\ UNCHANGED <<cur, queue>>
          ELSE /\ pc' = "pool"
               /\ queue' = Chunks(Tasks(args), args.n_jobs)
               /\ UNCHANGED <<ret, cur>>
    /\ UNCHANGED <<op, args, files, written, calls, running, failed>>

\* lines 175-177: the call of turn i of the for loop, its arguments evaluated
\* from left to right
LoopCall(a, i) ==
    LET j == PairedRegressor(i)
        t_r == KwGet(a.masker_kwargs, "t_r")
    IN IF j > Len(RegressorList(a)) THEN Raise("IndexError")
       ELSE IF Raised(t_r) THEN t_r
       ELSE Driver(a, i, j, t_r.val)

\* whether turn i gets as far as calling _mask_and_save
CallBegins(a, i) ==
    /\ PairedRegressor(i) <= Len(RegressorList(a))
    /\ Returned(KwGet(a.masker_kwargs, "t_r"))

\* lines 174-177: one turn of the for loop
SeqStep ==
    /\ pc = "loop"
    /\ cur <= Len(args.input_files)
    /\ LET i == cur
           out == LoopCall(args, i)
       IN /\ calls' = IF CallBegins(args, i)
                      THEN calls \cup {CallOf(args, i, PairedRegressor(i))}
                      ELSE calls
          /\ IF Raised(out)
             THEN /\ ret' = out
                  /\ pc' = "raised"
                  /\ UNCHANGED <<cur, files, written>>
             ELSE /\ files' = Put(files, out.val.out_fname, ToCsv(out.val.data))
                  /\ written' = written \cup {i}
                  /\ cur' = cur + 1
                  /\ UNCHANGED <<ret, pc>>
    /\ UNCHANGED <<op, args, queue, running, failed>>

\* the for loop ends and make_timeseries returns
SeqReturn ==
    /\ pc = "loop"
    /\ cur > Len(args.input_files)
    /\ ret' = Return(None)
    /\ pc' = "returned"
    /\ UNCHANGED <<op, args, cur, files, written, calls, queue, running, failed>>

\* The chunks a worker may turn to: one it holds, between two tasks, or, for
\* a free worker, the next of the queue
Runnable ==
    {r \in running : ~r.open}
    \cup (IF queue # <<>> /\ Cardinality(running) < args.n_jobs
          THEN {[tasks |-> Head(queue), at |-> 1, open |-> FALSE]} ELSE {})

\* a worker runs _mask_and_save on its chunk's next task, up to opening the
\* output file; an exception ends the chunk, and the first one is kept
PoolRun ==
    /\ pc = "pool"
    /\ \E r \in Runnable :
          /\ queue' = IF r \in running THEN queue ELSE Tail(queue)
          /\ LET i == r.tasks[r.at]
                 j == PairedRegressor(i)
                 out == Driver(args, i, j, args.masker_kwargs["t_r"])
             IN /\ calls' = calls \cup {CallOf(args, i, j)}
                /\ IF Raised(out)
                   THEN /\ running' = running \ {r}
                        /\ failed' = IF IsNone(failed) THEN Some(out.err) ELSE failed
                        /\ UNCHANGED files
                   ELSE /\ running' = (running \ {r}) \cup {[r EXCEPT !.open = TRUE]}
                        /\ files' = Put(files, out.val.out_fname, Truncated)
                        /\ UNCHANGED failed
    /\ UNCHANGED <<op, args, ret, pc, cur, written>>

\* a worker writes its table and closes the file; over other bytes, which
\* another worker wrote since the file was opened, the file holds this table
\* or a mix of the two
PoolWrite ==
    /\ pc = "pool"
    /\ \E r \in running :
          /\ r.open
          /\ LET i == r.tasks[r.at]
                 out == Driver(args, i, PairedRegressor(i), args.masker_kwargs["t_r"])
                 name == out.val.out_fname
             IN /\ \E content \in {ToCsv(out.val.data)}
                                    \cup (IF files[name] \in {Truncated, ToCsv(out.val.data)}
                                          THEN {} ELSE {Torn}) :
                      files' = Put(files, name, content)
                /\ written' = written \cup {i}
                /\ running' = (running \ {r})
                      \cup (IF r.at = Len(r.tasks) THEN {}
                            ELSE {[r EXCEPT !.at = r.at + 1, !.open = FALSE]})
    /\ UNCHANGED <<op, args, ret, pc, cur, calls, queue, failed>>

\* starmap returns once every chunk has ended, raising the exception kept;
\* leaving the with block shuts the pool down
PoolJoin ==
    /\ pc = "pool"
    /\ queue = <<>>
    /\ running = {}
    /\ IF IsNone(failed)
       THEN ret' = Return(None) /\ pc' = "returned"
       ELSE ret' = Raise(Val(failed)) /\ pc' = "raised"
    /\ UNCHANGED <<op, args, cur, files, written, calls, queue, running, failed>>

NextBatch ==
    \/ Start
    \/ SeqStep
    \/ SeqReturn
    \/ PoolRun
    \/ PoolWrite
    \/ PoolJoin

SpecBatch == InitBatch /\ [][NextBatch]_vars
SpecPool == InitPool /\ [][NextBatch]_vars

----------------------------------------------------------------------------
(* Claims *)

Ended(f) == op = f /\ ret # NotRun

NonZeroLabels(mask) == Cardinality(Range(mask) \ {0})

\* C1: with k the number of distinct non-zero voxel values of the mask,
\* _set_masker raises 'No ROI detected' for k = 0, builds a NiftiMasker for
\* k = 1 and a NiftiLabelsMasker for k >= 2, with or without a background
\* voxel in the mask.
C1_SelectorFollowsNonZeroLabels ==
    Ended("_set_masker") =>
        LET k == NonZeroLabels(args.mask)
        IN /\ k = 0 => ret.err = "ValueError: No ROI detected"
           /\ k = 1 => Returned(ret) /\ ret.val.kind = "NiftiMasker"
           /\ k >= 2 => Returned(ret) /\ ret.val.kind = "NiftiLabelsMasker"

InRange(a) == ~IsNone(a.n_scans) /\ 0 <= Val(a.n_scans) /\ Val(a.n_scans) <= Len(a.img.frames)

\* What both statements of C4 say of the image, of an absent matrix and of
\* the trimming stage of _mask_and_save.
C4_Frames ==
    /\ Ended("_discard_initial_scans") /\ InRange(args) =>
          LET N == Val(args.n_scans)
              F == Len(args.img.frames)
          IN /\ Returned(ret)
             /\ Len(ret.val.img.frames) = F - N
             /\ ret.val.img.frames = [i \in 1..(F - N) |-> args.img.frames[N + i]]
             /\ IsNone(args.regressors) => IsNone(ret.val.reg)
             /\ ~IsNone(args.regressors) => ~IsNone(ret.val.reg)
    /\ Ended("_mask_and_save: trim") =>
          /\ Returned(ret)
          /\ (IsNone(args.n_scans) \/ Val(args.n_scans) = 0) =>
                ret.val.img = args.img /\ ret.val.reg = args.regressors
          /\ (~IsNone(args.regressors) /\ (IsNone(args.n_scans) \/ InRange(args))
                /\ Len(Val(args.regressors).rows) = Len(args.img.frames)) =>
                Len(Val(ret.val.reg).rows) = Len(ret.val.img.frames)

\* C4, as claimed: for 0 <= N <= F, _discard_initial_scans returns the last
\* F-N frames in order and, of a matrix of R rows, R-N rows (None for no
\* matrix); in _mask_and_save a count of 0 or None changes nothing, and rows
\* equal to the frames before trimming equal them after.
C4_TrimBy_N_Leaves_R_Minus_N_Rows ==
    /\ C4_Frames
    /\ (Ended("_discard_initial_scans") /\ InRange(args) /\ ~IsNone(args.regressors)) =>
          Len(Val(ret.val.reg).rows) = Len(Val(args.regressors).rows) - Val(args.n_scans)

\* C4, amended: as claimed, but the matrix keeps R-N rows only when N <= R;
\* a matrix of fewer than N rows comes back with no rows.
C4_TrimDropsFirstRows ==
    /\ C4_Frames
    /\ (Ended("_discard_initial_scans") /\ InRange(args) /\ ~IsNone(args.regressors)) =>
          LET N == Val(args.n_scans)
              rows == Val(args.regressors).rows
              R == Len(rows)
              out == Val(ret.val.reg)
          IN /\ out.cols = Val(args.regressors).cols
             /\ N <= R => out.rows = [i \in 1..(R - N) |-> rows[N + i]]
             /\ N > R => out.rows = <<>>

C4_Witness ==
    /\ Ended("_discard_initial_scans") /\ InRange(args) /\ ~IsNone(args.regressors)
    /\ Val(args.n_scans) = 2
    /\ Len(args.img.frames) = 3
    /\ Len(Val(args.regressors).rows) = 3
    /\ Len(ret.val.img.frames) = 1
    /\ Len(Val(ret.val.reg).rows) = 1

\* C5: a discard count N above the frame count F makes _discard_initial_scans
\* raise; it never returns an image of no frames.
C5_TrimPastEndRaises ==
    (Ended("_discard_initial_scans") /\ ~IsNone(args.n_scans)
        /\ Len(args.img.frames) >= 1
        /\ Val(args.n_scans) > Len(args.img.frames)) =>
        Raised(ret)

\* C7: a NiftiMasker with voxel output off gives one column, the mean, named
\* 'roi' without a caller's label and named by the caller's label given as a
\* str or as a one-element list.
C7_MeanColumnIsNamedByLabel ==
    (Ended("_mask") /\ args.masker.kind = "NiftiMasker" /\ ~args.as_voxels
        /\ ~Raised(FitTransform(args.masker, args.img, args.confounds))) =>
        LET l == args.roi_labels
        IN /\ IsNone(l) => Returned(ret) /\ ret.val.columns = <<roi>>
           /\ (~IsNone(l) /\ Len(Val(l).v) = 1 /\ Val(l).v[1] # <<>>) =>
                 Returned(ret) /\ ret.val.columns = <<Val(l).v[1]>>
           /\ Returned(ret) => ret.val.data.mean

Selected(a) == \A i \in 1..Len(a.regressor_names) : a.regressor_names[i] \in Range(a.fname.header)

\* The columns C8 states: the selection in order, then the derivatives of the
\* realignment columns among it, in the same order
C8_Expected(a) ==
    LET names == a.regressor_names
        moved == SelectSeq(names, IsRealign)
    IN [names |-> names \o [i \in 1..Len(moved) |-> moved[i] \o <<"_", "d">>],
        data |-> [i \in 1..Len(names) |->
                    [file |-> a.fname.path, src |-> names[i], dx |-> None]]
                 \o [i \in 1..Len(moved) |->
                       [file |-> a.fname.path, src |-> moved[i], dx |-> a.t_r]]]

C8_AsExpected ==
    /\ Returned(ret)
    /\ ret.val.cols = C8_Expected(args).data
    /\ LET df == RegressorFrame(args.fname, args.regressor_names,
                                args.realign_derivatives, args.t_r).val
       IN [i \in 1..Len(df.cols) |-> df.cols[i].name] = C8_Expected(args).names

C8_Case ==
    /\ Ended("_build_regressors")
    /\ args.realign_derivatives
    /\ ~IsNone(args.t_r)
    /\ Selected(args)

\* C8, as claimed: for every list of selected names, _build_regressors with
\* derivatives and a spacing returns the selection in order, then one
\* derivative column <name>_d for each selected name holding 'rot' or
\* 'trans', in the order of their sources, and none for the others.
C8_DerivativesFollowSelection ==
    C8_Case => C8_AsExpected

RepeatsRealign(names) ==
    \E i, j \in 1..Len(names) : i < j /\ names[i] = names[j] /\ IsRealign(names[i])

\* C8, amended: as claimed, for a list that names no 'rot' or 'trans' column
\* twice and a confound file of at least two rows; for any other list or
\* file the call raises a ValueError.
C8_DerivativesFollowDistinctSelection ==
    C8_Case =>
        IF ~RepeatsRealign(args.regressor_names) /\ Len(args.fname.rows) >= 2
        THEN C8_AsExpected
        ELSE ret.err \in {"ValueError: array too small for gradient",
                          "ValueError: shape of passed values"}

C8_Witness ==
    /\ C8_Case
    /\ args.regressor_names = <<other, trans_y, rot_x>>
    /\ Returned(ret)
    /\ [i \in 1..Len(ret.val.cols) |-> <<ret.val.cols[i].src, ret.val.cols[i].dx>>]
          = <<<<other, None>>, <<trans_y, None>>, <<rot_x, None>>,
              <<trans_y, Some(TR)>>, <<rot_x, Some(TR)>>>>

Batch == op = "make_timeseries"
Over == pc \in {"returned", "raised"}
Images(a) == 1..Len(a.input_files)

\* With one process: the files the for loop leaves after its turns from i on
RECURSIVE SequentialFiles(_, _, _)
SequentialFiles(a, i, dir) ==
    IF i > Len(a.input_files) \/ Raised(LoopCall(a, i)) THEN dir
    ELSE SequentialFiles(a, i + 1,
             Put(dir, LoopCall(a, i).val.out_fname, ToCsv(LoopCall(a, i).val.data)))

SequentialReturns(a) ==
    Returned(Masker(a)) /\ \A i \in Images(a) : Returned(LoopCall(a, i))

\* C2: for the same inputs, make_timeseries with n_jobs > 1 ends with the same
\* output files, of the same contents, as with n_jobs = 1, whatever the order
\* of the workers' runs and writes.  (Stated of inputs on which both return.)
C2_PoolFilesAreSequentialFiles ==
    (Batch /\ args.n_jobs > 1 /\ pc = "returned" /\ SequentialReturns(args)) =>
        files = SequentialFiles(args, 1, <<>>)

DistinctPaths(a) ==
    \A i, j \in Images(a) : i # j => a.input_files[i] # a.input_files[j]

\* the regressor files are none, or one for each image
Paired(a) == Len(RegressorList(a)) = Len(a.input_files)

\* C3: after a make_timeseries call that returns, on n distinct image paths,
\* the output directory holds n files, one for each image and holding that
\* image's table: none is overwritten by another image's.  (Stated of calls
\* whose regressor files, if any, are one for each image.)
C3_OneFilePerImage ==
    (Batch /\ pc = "returned" /\ DistinctPaths(args) /\ Paired(args)) =>
        /\ Cardinality(DOMAIN files) = Len(args.input_files)
        /\ \A i \in Images(args) :
              \E f \in DOMAIN files :
                 files[f] = ToCsv(Driver(args, i, i, args.masker_kwargs["t_r"]).val.data)

NoSpacing(a) ==
    "t_r" \notin DOMAIN a.masker_kwargs \/ IsNone(a.masker_kwargs["t_r"])

Exist(a) == \A i \in Images(a) : Returned(NibLoad(a.input_files[i]))

\* C6: make_timeseries needs a t_r among the masker options only for the
\* derivatives: without realign_derivs and without t_r it raises nothing for
\* the missing t_r and calls the driver on every image, whatever n_jobs; with
\* realign_derivs, regressor files and no spacing it raises the
\* configuration error.
C6_SpacingNeededForDerivativesOnly ==
    (Batch /\ Over) =>
        /\ (~args.realign_derivs /\ "t_r" \notin DOMAIN args.masker_kwargs
              /\ args.input_files # <<>>) =>
              /\ ret.err # "KeyError"
              /\ Paired(args) => \A i \in Images(args) : \E c \in calls : c.pos = i
        /\ (args.realign_derivs /\ NoSpacing(args) /\ ~IsNone(args.regressor_files)
              /\ Paired(args) /\ Exist(args) /\ args.input_files # <<>>) =>
              ret.err = "ValueError: t_r not provided"

\* C9: with n_jobs = 1 the driver is called on the images in input order, each
\* with the regressor file of its position, and the loop stops at the first
\* failing image i: tables were written for exactly the images before i, and
\* the error reaches the caller.
C9_SequentialStopsAtFirstFailure ==
    (Batch /\ args.n_jobs = 1 /\ pc # "start") =>
        LET a == args
            n == Len(a.input_files)
            regs == RegressorList(a)
            Fails(k) == \/ k > Len(regs)
                        \/ "t_r" \notin DOMAIN a.masker_kwargs
                        \/ Raised(Driver(a, k, k, a.masker_kwargs["t_r"]))
            Table(k) == ToCsv(Driver(a, k, k, a.masker_kwargs["t_r"]).val.data)
            before == 1..(cur - 1)
        IN /\ written = before
           /\ \A k \in before : ~Fails(k)
           /\ \A k \in before : [pos |-> k, img |-> a.input_files[k], reg |-> regs[k]] \in calls
           /\ \A c \in calls : c.pos <= cur /\ c.img = a.input_files[c.pos] /\ c.reg = regs[c.pos]
           /\ DOMAIN files = {OutName(a.input_files[k]) : k \in before}
           /\ \A k \in before :
                 (\A m \in before : m > k => OutName(a.input_files[m]) # OutName(a.input_files[k]))
                    => files[OutName(a.input_files[k])] = Table(k)
           /\ pc = "loop" => (\A c \in calls : c.pos < cur) /\ ret = NotRun
           /\ pc = "raised" => cur \in 1..n /\ Fails(cur) /\ Raised(ret)
           /\ pc = "returned" => cur = n + 1 /\ Returned(ret)
           /\ (cur \in 1..n /\ Fails(cur)) => pc \in {"loop", "raised"}

C9_Witness ==
    /\ Batch /\ args.n_jobs = 1 /\ pc = "raised"
    /\ Len(args.input_files) = 3
    /\ cur = 2
    /\ written = {1}
    /\ ret.err = "FileNotFoundError"
    /\ Returned(NibLoad(args.input_files[3]))
    /\ ~IsNone(args.regressor_files)

\* The chunk starmap puts image i in, and the images before i in it
C10_ChunkOf(a, i) ==
    LET n == Min(Len(a.input_files), Len(RegressorList(a)))
        size == (n + 4 * a.n_jobs - 1) \div (4 * a.n_jobs)
    IN (i - 1) \div size

C10_Fails(a, i) == Raised(Driver(a, i, i, a.masker_kwargs["t_r"]))

C10_Cut(a, i) ==
    \E k \in 1..(i - 1) : C10_ChunkOf(a, k) = C10_ChunkOf(a, i) /\ C10_Fails(a, k)

Dispatched(a) == 1..Min(Len(a.input_files), Len(RegressorList(a)))

\* C10, as claimed: with n_jobs > 1 one image's failure cancels no other
\* dispatched call: every other dispatched image that does not fail has its
\* file written before make_timeseries raises.
C10_FailureCancelsNoSibling ==
    (Batch /\ args.n_jobs > 1 /\ pc = "raised" /\ failed # None) =>
        \A i \in Dispatched(args) : ~C10_Fails(args, i) => i \in written

\* C10, amended: starmap dispatches the n images in chunks of
\* ceil(n / (4 * n_jobs)) consecutive images, and a failure ends its own chunk
\* only: before make_timeseries raises, every dispatched image that does not
\* fail and follows no failing image of its chunk has its file written, and
\* the images that follow a failing image of their chunk are never run.
C10_FailureCancelsItsChunkOnly ==
    (Batch /\ args.n_jobs > 1 /\ pc = "raised" /\ failed # None) =>
        \A i \in Dispatched(args) :
           /\ (~C10_Fails(args, i) /\ ~C10_Cut(args, i)) =>
                 /\ i \in written
                 /\ OutName(args.input_files[i]) \in DOMAIN files
           /\ C10_Cut(args, i) => i \notin written /\ \A c \in calls : c.pos # i

C10_Witness ==
    /\ Batch /\ args.n_jobs = 2 /\ pc = "raised"
    /\ Len(args.input_files) = 9
    /\ C10_Fails(args, 3)
    /\ written = {1, 2, 5, 6, 7, 8, 9}

====
